---- MODULE Spec2Model ----
(***************************************************************************)
(* EventsToClientReporter (src/chrome/client/eventsToClientReporter.ts):   *)
(* the five report operations, the converters and the handle registry they *)
(* consult, and the Session that receives the protocol events.             *)
(*                                                                         *)
(* An optional parameter (location?, variablesReference?, exception?) is a *)
(* sequence of length 0 (absent) or 1 (present).  An event body is a       *)
(* function from field names to values, so that the presence of a field is *)
(* membership in its DOMAIN.                                               *)
(***************************************************************************)
EXTENDS Integers, Sequences, FiniteSets, TLC

\* Requests the engine issues in one behaviour of Spec (all five operations).
MaxRequests == 3
\* Requests the engine issues in one behaviour of SpecSync (the operations
\* that do not suspend, with the wide input sets).
MaxSyncRequests == 2
\* Requests the engine issues in one behaviour of SpecEquiv (exceptions, and
\* outputs of the texts the formatter renders).
MaxEquivRequests == 2
\* Requests the engine issues in one behaviour of SpecAsync (the operations
\* that suspend, with continuations that are not postponed for ever).
MaxAsyncRequests == 3

\* ChromeDebugLogic.THREAD_ID: the single thread of the debuggee.
THREAD_ID == 1
\* The first handle the registry mints.
START_HANDLE == 1000

VARIABLES
    requests,        \* the report calls issued so far, in call order; each records
                     \* how many events the Session had received when it was issued
                     \* and, for a sendSourceWasLoaded call, which other such
                     \* calls awaited their conversion then
    sent,            \* what Session.sendEvent received, in order, each tagged with its request
    handlesRegistry, \* the HandlesRegistry shared by the three converters
    microtasks       \* the suspended calls whose awaited promise has settled and
                     \* whose continuation has not run yet, in the order of settling

vars == <<requests, sent, handlesRegistry, microtasks>>

----------------------------------------------------------------------------
(* Internal entities *)

\* Loaded sources: two script-only sources without a path, one file on disk,
\* and one of a kind the converters cannot project.
MemorySources == {"mem1", "mem2"}
PathSources == {"file1"}
UnknownSources == {"unknownKind"}
Sources == MemorySources \cup PathSources \cup UnknownSources

HasPath(source) == source \in PathSources

Location(source, line, column) == [source |-> source, line |-> line, column |-> column]

----------------------------------------------------------------------------
(* Handle Registry *)

EmptyRegistry == [sources |-> <<>>, nextHandle |-> START_HANDLE, minted |-> <<>>]

\* register(entity) -> handle: the handle the entity already has, else a new one.
register(registry, source) ==
    IF source \in DOMAIN registry.sources
    THEN [handle |-> registry.sources[source], registry |-> registry]
    ELSE [handle |-> registry.nextHandle,
          registry |-> [sources |-> registry.sources @@ (source :> registry.nextHandle),
                        nextHandle |-> registry.nextHandle + 1,
                        minted |-> Append(registry.minted, source)]]

----------------------------------------------------------------------------
(* Field converters and the formatter *)

\* The client shape of a source: its path when it has one, else a handle.
clientSource(source, registry) ==
    IF HasPath(source)
    THEN [value |-> [name |-> source, path |-> source], registry |-> registry]
    ELSE LET r == register(registry, source)
         IN [value |-> [name |-> source, sourceReference |-> r.handle],
             registry |-> r.registry]

\* SourceToClientConverter.toSource, at the time it settles.
toSource(source, registry) ==
    IF source \in UnknownSources
    THEN [failed |-> TRUE, value |-> <<>>, registry |-> registry]
    ELSE LET c == clientSource(source, registry)
         IN [failed |-> FALSE, value |-> <<c.value>>, registry |-> c.registry]

\* LocationInSourceToClientConverter.toLocationInSource(location, body):
\* attaches source, line and column to the body, or fails.
toLocationInSource(location, body, registry) ==
    IF location.source \in UnknownSources
    THEN [failed |-> TRUE, value |-> <<>>, registry |-> registry]
    ELSE LET c == clientSource(location.source, registry)
         IN [failed |-> FALSE,
             value |-> <<body @@ ("source" :> c.value) @@ ("line" :> location.line)
                              @@ ("column" :> location.column)>>,
             registry |-> c.registry]

\* BPRecipieStatusToClientConverter.toBreakpoint, at the time it settles.
toBreakpoint(status, registry) ==
    LET base == ("verified" :> status.verified) @@ ("message" :> status.message)
    IN IF status.resolvedLocation = <<>>
       THEN [failed |-> FALSE, value |-> <<base>>, registry |-> registry]
       ELSE toLocationInSource(status.resolvedLocation[1], base, registry)

\* ExceptionStackTracePrinter.toStackTraceString: one line per frame.
RECURSIVE toStackTraceString(_)
toStackTraceString(lines) ==
    IF lines = <<>> THEN ""
    ELSE lines[1] \o "\n" \o toStackTraceString(Tail(lines))

----------------------------------------------------------------------------
(* Protocol events *)

OutputEvent(output, category) ==
    [event |-> "output", body |-> ("category" :> category) @@ ("output" :> output)]

LoadedSourceEvent(reason, source) ==
    [event |-> "loadedSource", body |-> [reason |-> reason, source |-> source]]

BreakpointEvent(reason, breakpoint) ==
    [event |-> "breakpoint", body |-> [reason |-> reason, breakpoint |-> breakpoint]]

StoppedEvent2(reason, threadId, exception) ==
    [event |-> "stopped",
     body |-> IF exception = <<>>
              THEN ("reason" :> reason) @@ ("threadId" :> threadId)
              ELSE ("reason" :> reason) @@ ("threadId" :> threadId)
                       @@ ("text" :> exception[1])]

----------------------------------------------------------------------------
(* The Reporter's operations, as functions of the parameters and the        *)
(* registry: the events handed to the Session, how the call ends, the       *)
(* registry afterwards and the conversion performed (none: <<>>).           *)

\* if (params.variablesReference): present and not 0.
Truthy(variablesReference) ==
    variablesReference # <<>> /\ variablesReference[1] # 0

\* Lines 81-83: the body with the variablesReference the caller supplied.
AttachAlways(body, variablesReference) ==
    body @@ ("variablesReference" :>
                 IF variablesReference = <<>> THEN 0 ELSE variablesReference[1])

AttachWhenDefined(body, variablesReference) ==
    IF variablesReference # <<>>
    THEN body @@ ("variablesReference" :> variablesReference[1])
    ELSE body

attachVariablesReference(body, variablesReference) ==
    IF Truthy(variablesReference)
    THEN body @@ ("variablesReference" :> variablesReference[1])
    ELSE body

attachLocationUnguarded(body, location, registry) ==
    <<toLocationInSource(IF location # <<>> THEN location[1]
                                            ELSE Location("mem2", 0, 0),
                         body, registry)>>

\* Lines 85-87: the location converter's work on the body (none: <<>>).
attachLocation(body, location, registry) ==
    IF location # <<>>
    THEN <<toLocationInSource(location[1], body, registry)>>
    ELSE <<>>

sendOutputDispatchBeforeLocation(params, registry) ==
    LET event == OutputEvent(params.output, params.category)
        body1 == attachVariablesReference(event.body, params.variablesReference)
        conv == attachLocation(body1, params.location, registry)
        failed == conv # <<>> /\ conv[1].failed
    IN [outcome |-> IF failed THEN "threw" ELSE "returned",
        events |-> <<[event EXCEPT !.body = body1]>>,
        registry |-> IF conv # <<>> THEN conv[1].registry ELSE registry,
        conv |-> conv]

sendOutputDispatchAlways(params, registry) ==
    LET event == OutputEvent(params.output, params.category)
        body1 == attachVariablesReference(event.body, params.variablesReference)
        conv == attachLocation(body1, params.location, registry)
        failed == conv # <<>> /\ conv[1].failed
        body2 == IF conv # <<>> /\ ~failed THEN conv[1].value[1] ELSE body1
    IN [outcome |-> "returned",
        events |-> <<[event EXCEPT !.body = body2]>>,
        registry |-> IF conv # <<>> THEN conv[1].registry ELSE registry,
        conv |-> conv]

sendOutput(params, registry) ==
    LET event == OutputEvent(params.output, params.category)
        body1 == attachVariablesReference(event.body, params.variablesReference)
        conv == attachLocation(body1, params.location, registry)
        failed == conv # <<>> /\ conv[1].failed
        body2 == IF conv # <<>> /\ ~failed THEN conv[1].value[1] ELSE body1
    IN [outcome |-> IF failed THEN "threw" ELSE "returned",
        events |-> IF failed THEN <<>> ELSE <<[event EXCEPT !.body = body2]>>,
        registry |-> IF conv # <<>> THEN conv[1].registry ELSE registry,
        conv |-> conv]

\* An async function turns what its body does into the state of its promise.
AsyncOutcome(outcome) == IF outcome = "threw" THEN "rejected" ELSE "resolved"

sendExceptionThrownWithReference(params, registry) ==
    LET r == sendOutput([output |-> toStackTraceString(params.exceptionStackTrace),
                         category |-> params.category,
                         variablesReference |-> <<Len(params.exceptionStackTrace)>>,
                         location |-> params.location], registry)
    IN [r EXCEPT !.outcome = AsyncOutcome(@)]

sendExceptionThrownNoLocation(params, registry) ==
    LET r == sendOutput([output |-> toStackTraceString(params.exceptionStackTrace),
                         category |-> params.category,
                         variablesReference |-> <<>>,
                         location |-> <<>>], registry)
    IN [r EXCEPT !.outcome = AsyncOutcome(@)]

sendExceptionThrownAsStderr(params, registry) ==
    LET r == sendOutput([output |-> toStackTraceString(params.exceptionStackTrace),
                         category |-> "stderr",
                         variablesReference |-> <<>>,
                         location |-> params.location], registry)
    IN [r EXCEPT !.outcome = AsyncOutcome(@)]

sendExceptionThrownNotAsync(params, registry) ==
    sendOutput([output |-> toStackTraceString(params.exceptionStackTrace),
                category |-> params.category,
                variablesReference |-> <<>>,
                location |-> params.location], registry)

sendExceptionThrown(params, registry) ==
    LET r == sendOutput([output |-> toStackTraceString(params.exceptionStackTrace),
                         category |-> params.category,
                         variablesReference |-> <<>>,
                         location |-> params.location], registry)
    IN [r EXCEPT !.outcome = AsyncOutcome(@)]

sendDebuggeeIsStoppedThreadPerReason(params, registry) ==
    [outcome |-> AsyncOutcome("returned"),
     events |-> <<StoppedEvent2(params.reason,
                                IF params.exception = <<>> THEN THREAD_ID ELSE THREAD_ID + 1,
                                params.exception)>>,
     registry |-> registry,
     conv |-> <<>>]

sendDebuggeeIsStoppedNoDispatch(params, registry) ==
    [outcome |-> AsyncOutcome("returned"),
     events |-> <<>>,
     registry |-> registry,
     conv |-> <<>>]

sendDebuggeeIsStopped(params, registry) ==
    [outcome |-> AsyncOutcome("returned"),
     events |-> <<StoppedEvent2(params.reason, THREAD_ID, params.exception)>>,
     registry |-> registry,
     conv |-> <<>>]

sendSourceWasLoadedResumeTwice(params, conv) ==
    IF conv.failed
    THEN [outcome |-> AsyncOutcome("threw"), events |-> <<>>]
    ELSE [outcome |-> AsyncOutcome("returned"),
          events |-> <<LoadedSourceEvent(params.reason, conv.value[1]),
                       LoadedSourceEvent(params.reason, conv.value[1])>>]

sendSourceWasLoadedResumeNoSend(params, conv) ==
    IF conv.failed
    THEN [outcome |-> AsyncOutcome("threw"), events |-> <<>>]
    ELSE [outcome |-> AsyncOutcome("returned"), events |-> <<>>]

sendSourceWasLoadedResumeFixedReference(params, conv) ==
    IF conv.failed
    THEN [outcome |-> AsyncOutcome("threw"), events |-> <<>>]
    ELSE [outcome |-> AsyncOutcome("returned"),
          events |-> <<LoadedSourceEvent(params.reason,
                           [name |-> params.source, sourceReference |-> START_HANDLE])>>]

sendSourceWasLoadedResumeUnconverted(params, conv) ==
    IF conv.failed
    THEN [outcome |-> AsyncOutcome("threw"), events |-> <<>>]
    ELSE [outcome |-> AsyncOutcome("returned"),
          events |-> <<LoadedSourceEvent(params.reason,
                                         [name |-> params.source, path |-> params.source])>>]

\* sendSourceWasLoaded after its await: conv is what toSource settled with.
sendSourceWasLoadedResume(params, conv) ==
    IF conv.failed
    THEN [outcome |-> AsyncOutcome("threw"), events |-> <<>>]
    ELSE [outcome |-> AsyncOutcome("returned"),
          events |-> <<LoadedSourceEvent(params.reason, conv.value[1])>>]

sendBPStatusChangedResumeAsChanged(params, conv) ==
    IF conv.failed
    THEN [outcome |-> AsyncOutcome("threw"), events |-> <<>>]
    ELSE [outcome |-> AsyncOutcome("returned"),
          events |-> <<BreakpointEvent("changed", conv.value[1])>>]

\* sendBPStatusChanged after its await: conv is what toBreakpoint settled with.
sendBPStatusChangedResume(params, conv) ==
    IF conv.failed
    THEN [outcome |-> AsyncOutcome("threw"), events |-> <<>>]
    ELSE [outcome |-> AsyncOutcome("returned"),
          events |-> <<BreakpointEvent(params.reason, conv.value[1])>>]

----------------------------------------------------------------------------
(* State machine *)

Init ==
    /\ requests = <<>>
    /\ sent = <<>>
    /\ handlesRegistry = EmptyRegistry
    /\ microtasks = <<>>

\* The sendSourceWasLoaded calls whose conversion has not settled yet.
Converting ==
    {k \in 1..Len(requests) :
        requests[k].op = "sendSourceWasLoaded" /\ requests[k].pc = "converting"}

\* The events of one call, as the Session receives them.
Tagged(i, events) == [k \in 1..Len(events) |-> [req |-> i, event |-> events[k]]]

\* A call that runs to its end without suspending.
Completed(op, params, r) ==
    /\ requests' = Append(requests,
           [op |-> op, params |-> params, pc |-> "done", outcome |-> r.outcome,
            conv |-> [k \in 1..Len(r.conv) |->
                         [failed |-> r.conv[k].failed, value |-> r.conv[k].value]],
            sentAtIssue |-> Len(sent), convertingAtIssue |-> {}])
    /\ sent' = sent \o Tagged(Len(requests) + 1, r.events)
    /\ handlesRegistry' = r.registry
    /\ UNCHANGED microtasks

\* A call that suspends on its converter.
Suspended(op, params) ==
    /\ requests' = Append(requests,
           [op |-> op, params |-> params, pc |-> "converting", outcome |-> "pending",
            conv |-> <<>>, sentAtIssue |-> Len(sent),
            convertingAtIssue |-> IF op = "sendSourceWasLoaded" THEN Converting ELSE {}])
    /\ UNCHANGED <<sent, handlesRegistry, microtasks>>

SendOutput(params) ==
    Completed("sendOutput", params, sendOutput(params, handlesRegistry))

SendExceptionThrown(params) ==
    Completed("sendExceptionThrown", params, sendExceptionThrown(params, handlesRegistry))

SendDebuggeeIsStopped(params) ==
    Completed("sendDebuggeeIsStopped", params, sendDebuggeeIsStopped(params, handlesRegistry))

SendSourceWasLoaded(params) == Suspended("sendSourceWasLoaded", params)

SendBPStatusChanged(params) == Suspended("sendBPStatusChanged", params)

\* The converter a suspended call awaits settles: the continuation of the
\* call is queued behind those queued before it.
Settle(i, r) ==
    /\ requests' = [requests EXCEPT ![i].pc = "converted",
                                    ![i].conv = <<[failed |-> r.failed, value |-> r.value]>>]
    /\ handlesRegistry' = r.registry
    /\ microtasks' = Append(microtasks, i)
    /\ UNCHANGED sent

ToSourceSettles(i) ==
    /\ requests[i].op = "sendSourceWasLoaded"
    /\ requests[i].pc = "converting"
    /\ Settle(i, toSource(requests[i].params.source, handlesRegistry))

ToBreakpointSettles(i) ==
    /\ requests[i].op = "sendBPStatusChanged"
    /\ requests[i].pc = "converting"
    /\ Settle(i, toBreakpoint(requests[i].params.bpRecipeStatus, handlesRegistry))

\* Calls that suspend on a converter.
Suspending(op) == op \in {"sendSourceWasLoaded", "sendBPStatusChanged"}

ResumeReadySerialized(i) ==
    /\ requests[i].pc = "converted"
    /\ microtasks # <<>> /\ Head(microtasks) = i
    /\ \A k \in 1..(i - 1) : Suspending(requests[k].op) => requests[k].pc = "done"

\* The continuation of call i is the next one to run: the call awaits
\* nothing but its own converter.
ResumeReady(i) ==
    /\ requests[i].pc = "converted"
    /\ microtasks # <<>> /\ Head(microtasks) = i

\* The suspended call runs on from its await.
Resume(i, r) ==
    /\ requests' = [requests EXCEPT ![i].pc = "done", ![i].outcome = r.outcome]
    /\ sent' = sent \o Tagged(i, r.events)
    /\ microtasks' = Tail(microtasks)
    /\ UNCHANGED handlesRegistry

SendSourceWasLoadedResumes(i) ==
    /\ requests[i].op = "sendSourceWasLoaded"
    /\ ResumeReady(i)
    /\ Resume(i, sendSourceWasLoadedResume(requests[i].params, requests[i].conv[1]))

SendBPStatusChangedResumes(i) ==
    /\ requests[i].op = "sendBPStatusChanged"
    /\ ResumeReady(i)
    /\ Resume(i, sendBPStatusChangedResume(requests[i].params, requests[i].conv[1]))

----------------------------------------------------------------------------
(* Inputs *)

NoLocation == <<>>
Locations == {Location("mem1", 3, 1), Location("file1", 42, 5), Location("unknownKind", 1, 1)}

\* Spec: every operation, few inputs each.
OutputParams ==
    {[output |-> "hello", category |-> "stdout", variablesReference |-> <<>>, location |-> l] :
        l \in {NoLocation, <<Location("mem1", 3, 1)>>, <<Location("unknownKind", 1, 1)>>}}

ExceptionParams ==
    {[exceptionStackTrace |-> <<"at foo (a.js:1:1)">>, category |-> "stderr", location |-> l] :
        l \in {NoLocation, <<Location("unknownKind", 1, 1)>>}}

SourceParams ==
    {[reason |-> "new", source |-> "mem1"], [reason |-> "changed", source |-> "mem2"],
     [reason |-> "removed", source |-> "unknownKind"]}

BPStatus(verified, resolvedLocation, message) ==
    [verified |-> verified, resolvedLocation |-> resolvedLocation, message |-> message]

BPParams ==
    {[reason |-> "changed", bpRecipeStatus |-> BPStatus(TRUE, <<Location("file1", 42, 5)>>, "")],
     [reason |-> "new", bpRecipeStatus |-> BPStatus(FALSE, <<>>, "unbound")],
     [reason |-> "changed", bpRecipeStatus |-> BPStatus(TRUE, <<Location("unknownKind", 1, 1)>>, "")]}

StoppedParams ==
    {[reason |-> "exception", exception |-> <<"Error: boom">>]}

\* SpecSync: the operations that do not suspend, many inputs each.
WideOutputParams ==
    {[output |-> "hello", category |-> c, variablesReference |-> v, location |-> l] :
        c \in {"stdout", "stderr"},
        v \in {<<>>, <<0>>, <<7>>},
        l \in {NoLocation} \cup {<<x>> : x \in Locations}}

StackTraces == {<<>>, <<"at foo (a.js:1:1)">>, <<"at foo (a.js:1:1)", "at bar (b.js:2:7)">>}

WideExceptionParams ==
    {[exceptionStackTrace |-> t, category |-> c, location |-> l] :
        t \in StackTraces,
        c \in {"stdout", "stderr"},
        l \in {NoLocation} \cup {<<x>> : x \in Locations}}

WideStoppedParams ==
    {[reason |-> r, exception |-> e] :
        r \in {"step", "breakpoint", "exception", "pause"},
        e \in {<<>>, <<"Error: boom">>}}

\* SpecAsync: the operations that suspend, one input that converts and one
\* that fails each.
AsyncSourceParams ==
    {[reason |-> "new", source |-> "mem1"], [reason |-> "removed", source |-> "unknownKind"]}

AsyncBPParams ==
    {[reason |-> "changed", bpRecipeStatus |-> BPStatus(TRUE, <<Location("file1", 42, 5)>>, "")],
     [reason |-> "changed", bpRecipeStatus |-> BPStatus(TRUE, <<Location("unknownKind", 1, 1)>>, "")]}

\* SpecEquiv: the outputs whose text is a rendered stack trace.
RenderedOutputParams ==
    {[output |-> toStackTraceString(t), category |-> c, variablesReference |-> <<>>,
      location |-> l] :
        t \in StackTraces,
        c \in {"stdout", "stderr"},
        l \in {NoLocation} \cup {<<x>> : x \in Locations}}

----------------------------------------------------------------------------
(* Specifications *)

\* The engine issues a report call (Spec).
ReportOutput ==
    \E p \in OutputParams : Len(requests) < MaxRequests /\ SendOutput(p)
ReportExceptionThrown ==
    \E p \in ExceptionParams : Len(requests) < MaxRequests /\ SendExceptionThrown(p)
ReportDebuggeeIsStopped ==
    \E p \in StoppedParams : Len(requests) < MaxRequests /\ SendDebuggeeIsStopped(p)
ReportSourceWasLoaded ==
    \E p \in SourceParams : Len(requests) < MaxRequests /\ SendSourceWasLoaded(p)
ReportBPStatusChanged ==
    \E p \in BPParams : Len(requests) < MaxRequests /\ SendBPStatusChanged(p)

\* A suspended call takes its next step.
SourceConverted == \E i \in 1..Len(requests) : ToSourceSettles(i)
SourceReported == \E i \in 1..Len(requests) : SendSourceWasLoadedResumes(i)
BreakpointConverted == \E i \in 1..Len(requests) : ToBreakpointSettles(i)
BreakpointReported == \E i \in 1..Len(requests) : SendBPStatusChangedResumes(i)

Next ==
    \/ ReportOutput
    \/ ReportExceptionThrown
    \/ ReportDebuggeeIsStopped
    \/ ReportSourceWasLoaded
    \/ ReportBPStatusChanged
    \/ SourceConverted
    \/ SourceReported
    \/ BreakpointConverted
    \/ BreakpointReported

Spec == Init /\ [][Next]_vars

\* The engine issues a call that does not suspend (SpecSync).
SyncOutput ==
    \E p \in WideOutputParams : Len(requests) < MaxSyncRequests /\ SendOutput(p)
SyncExceptionThrown ==
    \E p \in WideExceptionParams : Len(requests) < MaxSyncRequests /\ SendExceptionThrown(p)
SyncDebuggeeIsStopped ==
    \E p \in WideStoppedParams : Len(requests) < MaxSyncRequests /\ SendDebuggeeIsStopped(p)

NextSync ==
    \/ SyncOutput
    \/ SyncExceptionThrown
    \/ SyncDebuggeeIsStopped

SpecSync == Init /\ [][NextSync]_vars

\* The engine reports exceptions and outputs of rendered traces (SpecEquiv).
EquivOutput ==
    \E p \in RenderedOutputParams : Len(requests) < MaxEquivRequests /\ SendOutput(p)
EquivExceptionThrown ==
    \E p \in WideExceptionParams :
        Len(requests) < MaxEquivRequests /\ SendExceptionThrown(p)

NextEquiv ==
    \/ EquivOutput
    \/ EquivExceptionThrown

SpecEquiv == Init /\ [][NextEquiv]_vars

\* The engine issues a call that suspends (SpecAsync).
AsyncSourceWasLoaded ==
    \E p \in AsyncSourceParams :
        Len(requests) < MaxAsyncRequests /\ SendSourceWasLoaded(p)
AsyncBPStatusChanged ==
    \E p \in AsyncBPParams :
        Len(requests) < MaxAsyncRequests /\ SendBPStatusChanged(p)

NextAsync ==
    \/ AsyncSourceWasLoaded
    \/ AsyncBPStatusChanged
    \/ SourceConverted
    \/ SourceReported
    \/ BreakpointConverted
    \/ BreakpointReported

\* A continuation that is queued runs: the job queue is drained.  Nothing
\* makes a converter settle.
SpecAsync ==
    /\ Init
    /\ [][NextAsync]_vars
    /\ WF_vars(SourceReported)
    /\ WF_vars(BreakpointReported)

----------------------------------------------------------------------------
(* What the claims speak of *)

Reqs == 1..Len(requests)

\* The events the Session received for call i, in order.
EventsOf(i) == SelectSeq(sent, LAMBDA e : e.req = i)

\* Where in the Session's input the event of call i is (0: nowhere).
PosOf(i) ==
    IF \E k \in 1..Len(sent) : sent[k].req = i
    THEN CHOOSE k \in 1..Len(sent) : sent[k].req = i
    ELSE 0

\* The converter the call used failed.
ConversionFailed(r) == r.conv # <<>> /\ r.conv[1].failed

KindOf(op) ==
    CASE op = "sendOutput" -> "output"
      [] op = "sendExceptionThrown" -> "output"
      [] op = "sendSourceWasLoaded" -> "loadedSource"
      [] op = "sendBPStatusChanged" -> "breakpoint"
      [] op = "sendDebuggeeIsStopped" -> "stopped"

----------------------------------------------------------------------------
\* C1: a report call never has more than one event at the Session, every
\* event of a call is of the kind of its operation, and a call that has run
\* to its end without a failed conversion has exactly one event there,
\* whatever other calls were in flight meanwhile.
C1_ExactlyOneEventOfItsKind ==
    \A i \in Reqs :
        LET r == requests[i]
            evs == EventsOf(i)
        IN /\ Len(evs) <= 1
           /\ \A k \in 1..Len(evs) : evs[k].event.event = KindOf(r.op)
           /\ (r.pc = "done" /\ ~ConversionFailed(r)) => Len(evs) = 1

\* Two suspending calls of different operations were in flight together and
\* the later one's event reached the Session first.
C1_Witness ==
    \E i, j \in Reqs :
        /\ i < j
        /\ requests[i].op = "sendSourceWasLoaded"
        /\ requests[j].op = "sendBPStatusChanged"
        /\ requests[i].pc = "done" /\ requests[j].pc = "done"
        /\ PosOf(j) > 0 /\ PosOf(j) < PosOf(i)

\* C2: a call whose converter failed has no event at the Session, neither
\* when the failure happens nor in any later state.
C2_NoEventAfterFailedConversion ==
    \A i \in Reqs : ConversionFailed(requests[i]) => Len(EventsOf(i)) = 0

\* Failed calls of two operations have run to their end, and a later call
\* has had its event sent since.
C2_Witness ==
    \E i, j, k \in Reqs :
        /\ i < k /\ j < k
        /\ requests[i].op = "sendOutput" /\ ConversionFailed(requests[i])
        /\ requests[j].op = "sendBPStatusChanged" /\ ConversionFailed(requests[j])
        /\ requests[j].pc = "done"
        /\ requests[k].pc = "done" /\ Len(EventsOf(k)) = 1

\* C3: every sendDebuggeeIsStopped call has exactly one event at the
\* Session, a Stopped event, and every Stopped event there carries THREAD_ID
\* and comes from such a call.
C3_OneStoppedEventFixedThread ==
    /\ \A i \in Reqs :
          requests[i].op = "sendDebuggeeIsStopped" =>
              /\ Len(EventsOf(i)) = 1
              /\ EventsOf(i)[1].event.event = "stopped"
              /\ EventsOf(i)[1].event.body.reason = requests[i].params.reason
    /\ \A k \in 1..Len(sent) :
          sent[k].event.event = "stopped" =>
              /\ sent[k].event.body.threadId = THREAD_ID
              /\ requests[sent[k].req].op = "sendDebuggeeIsStopped"

\* Two stops of different reasons, one with an exception and one without.
C3_Witness ==
    \E i, j \in Reqs :
        /\ requests[i].op = "sendDebuggeeIsStopped"
        /\ requests[j].op = "sendDebuggeeIsStopped"
        /\ requests[i].params.reason = "pause" /\ requests[i].params.exception = <<>>
        /\ requests[j].params.reason = "exception" /\ requests[j].params.exception # <<>>
        /\ Len(EventsOf(i)) = 1 /\ Len(EventsOf(j)) = 1

\* C4: a sendOutput call without location and without variablesReference
\* sends one Output event whose body has the fields category and output and
\* no other, with the values supplied, and the location converter is not called.
C4_BareOutputHasOnlyTextAndCategory ==
    \A i \in Reqs :
        LET r == requests[i]
        IN (/\ r.op = "sendOutput"
            /\ r.params.location = <<>>
            /\ r.params.variablesReference = <<>>) =>
               /\ Len(EventsOf(i)) = 1
               /\ EventsOf(i)[1].event.event = "output"
               /\ DOMAIN EventsOf(i)[1].event.body = {"category", "output"}
               /\ EventsOf(i)[1].event.body.output = r.params.output
               /\ EventsOf(i)[1].event.body.category = r.params.category
               /\ r.conv = <<>>

\* A bare output was reported after one that carried a location and a reference.
C4_Witness ==
    /\ Len(requests) = 2
    /\ requests[1].op = "sendOutput"
    /\ requests[1].params.location # <<>>
    /\ requests[1].params.variablesReference = <<7>>
    /\ Len(EventsOf(1)) = 1
    /\ requests[2].op = "sendOutput"
    /\ requests[2].params.location = <<>>
    /\ requests[2].params.variablesReference = <<>>
    /\ Len(EventsOf(2)) = 1

\* C5: the Output event of a sendOutput call has the field
\* variablesReference exactly when the caller supplied one that is not 0,
\* and then with the value supplied.
C5_VariablesReferenceIffNonZero ==
    \A i \in Reqs :
        requests[i].op = "sendOutput" =>
            \A k \in 1..Len(EventsOf(i)) :
                LET body == EventsOf(i)[k].event.body
                    v == requests[i].params.variablesReference
                IN /\ ("variablesReference" \in DOMAIN body) <=> (v # <<>> /\ v[1] # 0)
                   /\ ("variablesReference" \in DOMAIN body) => body.variablesReference = v[1]

\* One output supplied the reference 0 and one the reference 7, with a location.
C5_Witness ==
    \E i, j \in Reqs :
        /\ requests[i].op = "sendOutput" /\ requests[j].op = "sendOutput"
        /\ requests[i].params.variablesReference = <<0>>
        /\ requests[j].params.variablesReference = <<7>>
        /\ requests[j].params.location # <<>>
        /\ Len(EventsOf(i)) = 1 /\ Len(EventsOf(j)) = 1
        /\ "variablesReference" \notin DOMAIN EventsOf(i)[1].event.body
        /\ EventsOf(j)[1].event.body.variablesReference = 7

\* C6: a sendExceptionThrown call has at most one event at the Session and,
\* unless its location converter failed, exactly one: an Output event whose
\* text is toStackTraceString of the stack trace and whose category is the
\* one supplied; for the empty stack trace too.
C6_ExceptionTextAndCategory ==
    \A i \in Reqs :
        LET r == requests[i]
            evs == EventsOf(i)
        IN r.op = "sendExceptionThrown" =>
              /\ Len(evs) <= 1
              /\ ~ConversionFailed(r) => Len(evs) = 1
              /\ \A k \in 1..Len(evs) :
                    /\ evs[k].event.event = "output"
                    /\ evs[k].event.body.output = toStackTraceString(r.params.exceptionStackTrace)
                    /\ evs[k].event.body.category = r.params.category
              /\ (r.params.exceptionStackTrace = <<"at foo (a.js:1:1)">> /\ Len(evs) = 1)
                    => evs[1].event.body.output = "at foo (a.js:1:1)\n"

\* The empty stack trace was reported on stdout and the one-frame trace on stderr.
C6_Witness ==
    \E i, j \in Reqs :
        /\ requests[i].op = "sendExceptionThrown"
        /\ requests[i].params.exceptionStackTrace = <<>>
        /\ requests[i].params.category = "stdout"
        /\ Len(EventsOf(i)) = 1
        /\ EventsOf(i)[1].event.body.output = ""
        /\ requests[j].op = "sendExceptionThrown"
        /\ requests[j].params.exceptionStackTrace = <<"at foo (a.js:1:1)">>
        /\ requests[j].params.category = "stderr"
        /\ Len(EventsOf(j)) = 1

\* Calls i < j report the loading of the same source without a path, and
\* both have had their LoadedSource event sent.
SameMemorySourceReported(i, j) ==
    /\ i < j
    /\ requests[i].op = "sendSourceWasLoaded"
    /\ requests[j].op = "sendSourceWasLoaded"
    /\ requests[i].params.source = requests[j].params.source
    /\ requests[i].params.source \in MemorySources
    /\ Len(EventsOf(i)) = 1 /\ Len(EventsOf(j)) = 1

\* The two LoadedSource events carry a handle, the same one.
SameHandle(i, j) ==
    LET si == EventsOf(i)[1].event.body.source
        sj == EventsOf(j)[1].event.body.source
    IN /\ "sourceReference" \in DOMAIN si
       /\ "sourceReference" \in DOMAIN sj
       /\ si.sourceReference = sj.sourceReference

\* Call j was issued after the event of call i had been sent.
Successive(i, j) == PosOf(i) > 0 /\ PosOf(i) <= requests[j].sentAtIssue

\* C7: two successive sendSourceWasLoaded calls for the same source without
\* a path, whatever was reported between them, send LoadedSource events
\* with the same handle.
C7_SuccessiveLoadsSameHandle ==
    \A i, j \in Reqs :
        (SameMemorySourceReported(i, j) /\ Successive(i, j)) => SameHandle(i, j)

\* The second call came after the first had finished, with another call
\* between them.
C7_Witness ==
    \E i, j \in Reqs :
        /\ SameMemorySourceReported(i, j)
        /\ Successive(i, j)
        /\ j = i + 2
        /\ requests[i + 1].pc = "done"

\* C8: the Breakpoint event of a sendBPStatusChanged call has the reason
\* supplied and, as its breakpoint, what toBreakpoint returned for the
\* status: verified and the resolved line for a status verified at a line.
C8_BreakpointEventIsConverterResult ==
    \A i \in Reqs :
        LET r == requests[i]
            evs == EventsOf(i)
        IN r.op = "sendBPStatusChanged" =>
              \A k \in 1..Len(evs) :
                  LET body == evs[k].event.body
                      status == r.params.bpRecipeStatus
                  IN /\ evs[k].event.event = "breakpoint"
                     /\ body.reason = r.params.reason
                     /\ r.conv # <<>> /\ ~r.conv[1].failed
                     /\ body.breakpoint = r.conv[1].value[1]
                     /\ body.breakpoint.verified = status.verified
                     /\ status.resolvedLocation # <<>> =>
                            body.breakpoint.line = status.resolvedLocation[1].line

\* A status verified at line 42 was reported as changed, and an unverified
\* one as new.
C8_Witness ==
    \E i, j \in Reqs :
        /\ requests[i].op = "sendBPStatusChanged"
        /\ requests[i].params.reason = "changed"
        /\ Len(EventsOf(i)) = 1
        /\ EventsOf(i)[1].event.body.breakpoint.verified
        /\ EventsOf(i)[1].event.body.breakpoint.line = 42
        /\ requests[j].op = "sendBPStatusChanged"
        /\ requests[j].params.reason = "new"
        /\ Len(EventsOf(j)) = 1
        /\ ~EventsOf(j)[1].event.body.breakpoint.verified

\* A call that has run to its end without a failed conversion has its event sent.
SucceededCallsSend ==
    \A j \in Reqs :
        (requests[j].pc = "done" /\ ~ConversionFailed(requests[j])) => Len(EventsOf(j)) = 1

\* C9, as the claim states it: every failed conversion ends the call as a
\* rejected promise, and calls that succeed still send their event.
C9_FailureIsRejectedPromise ==
    /\ \A i \in Reqs :
          (requests[i].pc = "done" /\ ConversionFailed(requests[i])) =>
              requests[i].outcome = "rejected"
    /\ SucceededCallsSend

\* C9, amended: a failed conversion ends sendSourceWasLoaded,
\* sendBPStatusChanged and sendExceptionThrown as a rejected promise and
\* sendOutput, which returns no promise, by throwing to its caller; in
\* either case calls that succeed, later ones included, still send their event.
C9_FailureSurfacesToCaller ==
    /\ \A i \in Reqs :
          (requests[i].pc = "done" /\ ConversionFailed(requests[i])) =>
              requests[i].outcome =
                  IF requests[i].op = "sendOutput" THEN "threw" ELSE "rejected"
    /\ SucceededCallsSend

\* A sendOutput call threw, a sendExceptionThrown call was rejected, and a
\* call issued after both has had its event sent.
C9_Witness ==
    \E i, j, k \in Reqs :
        /\ i < k /\ j < k
        /\ requests[i].op = "sendOutput" /\ requests[i].outcome = "threw"
        /\ requests[j].op = "sendExceptionThrown" /\ requests[j].outcome = "rejected"
        /\ ConversionFailed(requests[i]) /\ ConversionFailed(requests[j])
        /\ requests[k].op = "sendSourceWasLoaded"
        /\ requests[k].pc = "done" /\ Len(EventsOf(k)) = 1

\* How many handles the registry has minted for the source.
Minted(source) ==
    Cardinality({k \in 1..Len(handlesRegistry.minted) : handlesRegistry.minted[k] = source})

\* C10: sendSourceWasLoaded calls for the same source without a path that
\* were awaiting their conversions at the same time send LoadedSource events
\* with the same handle, and the registry has minted one handle for that
\* source and never more than one for any.
C10_ConcurrentLoadsOneHandle ==
    /\ \A i, j \in Reqs :
          (SameMemorySourceReported(i, j) /\ i \in requests[j].convertingAtIssue) =>
              /\ SameHandle(i, j)
              /\ Minted(requests[i].params.source) = 1
    /\ \A s \in Sources : Minted(s) <= 1

\* Three calls for one source were all issued before any conversion
\* settled, and the last one's event was sent before the first one's.
C10_Witness ==
    /\ Len(requests) = 3
    /\ SameMemorySourceReported(1, 2)
    /\ SameMemorySourceReported(2, 3)
    /\ requests[3].convertingAtIssue = {1, 2}
    /\ PosOf(3) < PosOf(1)

\* The source an event sent for call i refers to (for a LoadedSource event
\* the source loaded, for an Output event the source of its location).
EntityOf(i) ==
    IF requests[i].op = "sendSourceWasLoaded"
    THEN requests[i].params.source
    ELSE requests[i].params.location[1].source

\* The events at the Session that carry a client source.
SourceEvents ==
    {k \in 1..Len(sent) :
        \/ sent[k].event.event = "loadedSource"
        \/ sent[k].event.event = "output" /\ "source" \in DOMAIN sent[k].event.body}

\* C11: in every state no two sources have the same handle in the
\* registry, every event for a source without a path carries the handle the
\* registry holds for that source (so the handle of a source never
\* changes), and two events carry the same handle only for the same source.
C11_HandlesOneToOne ==
    /\ \A s, t \in DOMAIN handlesRegistry.sources :
          handlesRegistry.sources[s] = handlesRegistry.sources[t] => s = t
    /\ \A k \in SourceEvents :
          LET cs == sent[k].event.body.source
              e == EntityOf(sent[k].req)
          IN IF e \in MemorySources
             THEN /\ "sourceReference" \in DOMAIN cs
                  /\ e \in DOMAIN handlesRegistry.sources
                  /\ cs.sourceReference = handlesRegistry.sources[e]
             ELSE "sourceReference" \notin DOMAIN cs
    /\ \A k, l \in SourceEvents :
          LET ck == sent[k].event.body.source
              cl == sent[l].event.body.source
          IN ("sourceReference" \in DOMAIN ck /\ "sourceReference" \in DOMAIN cl) =>
                ((ck.sourceReference = cl.sourceReference)
                    <=> (EntityOf(sent[k].req) = EntityOf(sent[l].req)))

\* Two sources without a path were reported as loaded, with different
\* handles, and an output located in the first carried the first's handle.
C11_Witness ==
    \E i, j, k \in Reqs :
        /\ requests[i].op = "sendSourceWasLoaded" /\ requests[i].params.source = "mem1"
        /\ requests[j].op = "sendSourceWasLoaded" /\ requests[j].params.source = "mem2"
        /\ requests[k].op = "sendOutput" /\ requests[k].params.location # <<>>
        /\ Len(EventsOf(i)) = 1 /\ Len(EventsOf(j)) = 1 /\ Len(EventsOf(k)) = 1
        /\ EventsOf(i)[1].event.body.source.sourceReference
               # EventsOf(j)[1].event.body.source.sourceReference
        /\ EventsOf(k)[1].event.body.source.sourceReference
               = EventsOf(i)[1].event.body.source.sourceReference

\* The events the Session received for call i, without their tags.
PlainEventsOf(i) == [k \in 1..Len(EventsOf(i)) |-> EventsOf(i)[k].event]

\* The call ended in failure: it threw or its promise was rejected.
Failed(r) == r.outcome \in {"threw", "rejected"}

\* Call j is sendOutput with the rendered stack trace, the category and the
\* location of the sendExceptionThrown call i.
OutputOfException(i, j) ==
    /\ requests[i].op = "sendExceptionThrown"
    /\ requests[j].op = "sendOutput"
    /\ requests[j].params.output = toStackTraceString(requests[i].params.exceptionStackTrace)
    /\ requests[j].params.category = requests[i].params.category
    /\ requests[j].params.location = requests[i].params.location
    /\ requests[j].params.variablesReference = <<>>

\* C12: a sendExceptionThrown call and the sendOutput call with the
\* rendered trace, the same category and the same location have the same
\* events at the Session and both succeed or both fail; the exception's
\* event has location fields exactly when a location was supplied, and
\* none is sent when the location converter failed.
C12_ExceptionIsOutputOfRenderedTrace ==
    \A i, j \in Reqs :
        OutputOfException(i, j) =>
            /\ PlainEventsOf(i) = PlainEventsOf(j)
            /\ Failed(requests[i]) <=> Failed(requests[j])
            /\ \A k \in 1..Len(EventsOf(i)) :
                  ("source" \in DOMAIN EventsOf(i)[k].event.body)
                      <=> (requests[i].params.location # <<>>)
            /\ ConversionFailed(requests[i]) =>
                  (Len(EventsOf(i)) = 0 /\ Failed(requests[i]))

\* An exception located in a source without a path and the corresponding
\* output were both reported, each with the handle of that source.
C12_Witness ==
    /\ Len(requests) = 2
    /\ OutputOfException(1, 2)
    /\ requests[1].params.location = <<Location("mem1", 3, 1)>>
    /\ requests[1].params.exceptionStackTrace # <<>>
    /\ Len(EventsOf(1)) = 1 /\ Len(EventsOf(2)) = 1
    /\ "sourceReference" \in DOMAIN EventsOf(1)[1].event.body.source

\* The conversion of call i has settled with a client shape.
Converted(i) ==
    /\ i \in Reqs
    /\ requests[i].conv # <<>> /\ ~requests[i].conv[1].failed

\* Call i has handed its event to the Session and its promise is resolved.
Reported(i) ==
    /\ i \in Reqs
    /\ requests[i].pc = "done" /\ requests[i].outcome = "resolved"
    /\ Len(EventsOf(i)) = 1

\* An event of a suspending call is at the Session only once its conversion
\* has settled with a client shape, and its promise is resolved only once
\* its event is at the Session.
SentAfterConversionResolvedAfterSent ==
    \A i \in Reqs :
        Suspending(requests[i].op) =>
            /\ Len(EventsOf(i)) > 0 => Converted(i)
            /\ requests[i].outcome = "resolved" => Len(EventsOf(i)) = 1
            /\ requests[i].pc # "done" => requests[i].outcome = "pending"

\* C13: for sendSourceWasLoaded and sendBPStatusChanged the event is sent
\* only after the conversion has finished, the promise of the call is
\* resolved only after the event has been handed to the Session, and a call
\* whose conversion has finished successfully eventually has its event sent
\* and its promise resolved.
C13_SentAfterConversionThenCompletes ==
    /\ []SentAfterConversionResolvedAfterSent
    /\ \A i \in 1..MaxAsyncRequests : Converted(i) ~> Reported(i)

\* A source and a breakpoint status were both reported to the end.
C13_Witness ==
    /\ Len(requests) = 2
    /\ requests[1].op = "sendBPStatusChanged"
    /\ requests[2].op = "sendSourceWasLoaded"
    /\ Reported(1) /\ Reported(2)
    /\ Converted(1) /\ Converted(2)

\* The continuation of call i can run now.
CanResume(i) ==
    ENABLED (SendSourceWasLoadedResumes(i) \/ SendBPStatusChangedResumes(i))

\* The call whose continuation is first in the queue can run on, whatever
\* the calls issued before it are waiting for.
HeadNotHeldBack ==
    \A i \in Reqs : (microtasks # <<>> /\ Head(microtasks) = i) => CanResume(i)

\* A step that hands an event of a suspending call to the Session hands the
\* event of the call whose conversion settled first among those waiting.
SentInSettlingOrder ==
    \A i \in Reqs :
        (/\ Suspending(requests[i].op)
         /\ Len(sent') = Len(sent) + 1
         /\ sent'[Len(sent')].req = i) =>
            /\ microtasks # <<>> /\ Head(microtasks) = i
            /\ requests[i].pc = "converted"

\* C14: the reporter does not serialize the calls in flight: a call whose
\* conversion has settled runs on when its turn in the job queue comes, also
\* while calls issued before it still await theirs, and the events of
\* suspending calls reach the Session in the order in which the conversions
\* settled.
C14_NotSerialized ==
    /\ []HeadNotHeldBack
    /\ [][SentInSettlingOrder]_vars

\* The event of a later call is at the Session while an earlier call of the
\* same operation still awaits its conversion.
C14_Witness ==
    \E i, j \in Reqs :
        /\ i < j
        /\ requests[i].op = "sendSourceWasLoaded" /\ requests[i].pc = "converting"
        /\ requests[j].op = "sendSourceWasLoaded" /\ requests[j].pc = "done"
        /\ Len(EventsOf(j)) = 1

\* The conversion of call i has not settled.
Stuck(i) == i \in Reqs /\ requests[i].pc = "converting"

\* A call whose conversion has not settled has no event at the Session and
\* a pending promise, and it does not hold back the continuation of another.
StuckCallSendsNothingBlocksNothing ==
    \A i \in Reqs :
        Stuck(i) =>
            /\ Len(EventsOf(i)) = 0
            /\ requests[i].outcome = "pending"
            /\ i \notin {microtasks[k] : k \in 1..Len(microtasks)}
            /\ \A j \in Reqs :
                  (microtasks # <<>> /\ Head(microtasks) = j) => CanResume(j)

\* C15: a conversion that never completes leaves only its own event
\* undelivered: the call has no event while its conversion is outstanding,
\* and every other call, issued before or after it, whose conversion
\* completes successfully has its event sent, whether or not the stuck
\* conversion ever completes.
C15_StuckConversionBlocksNoOther ==
    /\ []StuckCallSendsNothingBlocksNothing
    /\ \A i, j \in 1..MaxAsyncRequests :
          (Stuck(i) /\ Converted(j)) ~> Reported(j)

\* The second of three calls still awaits its conversion; the calls issued
\* before and after it have had their events sent.
C15_Witness ==
    /\ Len(requests) = 3
    /\ Stuck(2)
    /\ Reported(1) /\ Reported(3)
    /\ Len(sent) = 2

LocationFields == {"source", "line", "column"}

\* C16: a sendOutput call applies the location converter once when a
\* location is supplied and not at all otherwise; the Output event it hands
\* to the Session is the body as the converter left it, with source, line
\* and column merged into the fields it had; and an Output event has
\* location fields only if the caller supplied a location.
C16_LocationMergedBeforeDispatch ==
    /\ \A i \in Reqs :
          LET r == requests[i]
              evs == EventsOf(i)
          IN r.op = "sendOutput" =>
                /\ Len(r.conv) = IF r.params.location # <<>> THEN 1 ELSE 0
                /\ \A k \in 1..Len(evs) :
                      r.params.location # <<>> =>
                          /\ evs[k].event.body = r.conv[1].value[1]
                          /\ LocationFields \subseteq DOMAIN evs[k].event.body
                          /\ evs[k].event.body.line = r.params.location[1].line
                          /\ evs[k].event.body.column = r.params.location[1].column
                          /\ evs[k].event.body.output = r.params.output
                          /\ evs[k].event.body.category = r.params.category
    /\ \A k \in 1..Len(sent) :
          (/\ sent[k].event.event = "output"
           /\ LocationFields \cap DOMAIN sent[k].event.body # {}) =>
              requests[sent[k].req].params.location # <<>>

\* An output located in a file was reported with its line and column and a
\* variablesReference.
C16_Witness ==
    \E i \in Reqs :
        /\ requests[i].op = "sendOutput"
        /\ requests[i].params.location = <<Location("file1", 42, 5)>>
        /\ requests[i].params.variablesReference = <<7>>
        /\ Len(EventsOf(i)) = 1
        /\ EventsOf(i)[1].event.body.line = 42
        /\ EventsOf(i)[1].event.body.source.path = "file1"
        /\ EventsOf(i)[1].event.body.variablesReference = 7

\* The call a step issues, if it issues one.
Issues(i) == Len(requests) = i - 1 /\ Len(requests') = i

ConvertsNothing(r) ==
    \/ r.op = "sendDebuggeeIsStopped"
    \/ r.op = "sendOutput" /\ r.params.location = <<>>

\* C17: a sendDebuggeeIsStopped call, or a sendOutput call without a
\* location, performs no conversion and leaves the Handle Registry as it
\* found it (no handle minted, none resolved); all it does is send its one
\* event, and it touches no call in flight.
C17_NoConversionRegistryUnchanged ==
    [][\A i \in 1..MaxRequests :
          (Issues(i) /\ ConvertsNothing(requests'[i])) =>
              /\ handlesRegistry' = handlesRegistry
              /\ requests'[i].conv = <<>>
              /\ requests'[i].pc = "done"
              /\ Len(sent') = Len(sent) + 1
              /\ microtasks' = microtasks
              /\ \A j \in 1..(i - 1) : requests'[j] = requests[j]]_vars

\* After a load of mem1 minted its handle, a stopped report and a bare
\* output were made and the registry still holds that one handle.
C17_Witness ==
    /\ Len(requests) = 3
    /\ requests[1].op = "sendSourceWasLoaded" /\ requests[1].pc = "done"
    /\ requests[2].op = "sendDebuggeeIsStopped"
    /\ requests[3].op = "sendOutput" /\ requests[3].params.location = <<>>
    /\ handlesRegistry.minted = <<"mem1">>
    /\ Len(sent) = 3

NonSuspendingOps == {"sendOutput", "sendExceptionThrown", "sendDebuggeeIsStopped"}

\* The calls suspended at their await: converter outstanding, or settled
\* with the continuation not yet run.
InFlight == {k \in Reqs : requests[k].pc # "done"}

\* A call of a non-suspending operation is over when it is made, and unless
\* its converter failed its event is the next one the Session receives.
DispatchedBeforeReturn ==
    \A i \in Reqs :
        requests[i].op \in NonSuspendingOps =>
            /\ requests[i].pc = "done"
            /\ ~Failed(requests[i]) =>
                   /\ Len(EventsOf(i)) = 1
                   /\ PosOf(i) = requests[i].sentAtIssue + 1

NonSuspendingInCallOrder ==
    \A i, j \in Reqs :
        (/\ i < j
         /\ requests[i].op \in NonSuspendingOps /\ requests[j].op \in NonSuspendingOps
         /\ PosOf(i) # 0 /\ PosOf(j) # 0) => PosOf(i) < PosOf(j)

\* The step that issues such a call appends the call's event behind what
\* the Session already has, while no suspended call has sent anything; and
\* the Session's input only ever grows at its end.
AheadOfInFlight ==
    /\ Len(sent') >= Len(sent) /\ SubSeq(sent', 1, Len(sent)) = sent
    /\ \A i \in 1..MaxRequests :
          (/\ Issues(i)
           /\ requests'[i].op \in NonSuspendingOps
           /\ ~Failed(requests'[i])) =>
              /\ Len(sent') = Len(sent) + 1
              /\ sent'[Len(sent')].req = i
              /\ \A j \in InFlight : \A k \in 1..Len(sent') : sent'[k].req # j

\* C18: sendOutput, sendExceptionThrown and sendDebuggeeIsStopped hand
\* their event to the Session before they return, so their events arrive in
\* call order and ahead of the event of every suspending call that is still
\* in flight when they are called.
C18_NonSuspendingDispatchInCallOrder ==
    /\ [](DispatchedBeforeReturn /\ NonSuspendingInCallOrder)
    /\ [][AheadOfInFlight]_vars

\* A load was in flight while an exception and then a stop were reported;
\* its event reached the Session third.
C18_Witness ==
    /\ Len(requests) = 3
    /\ requests[1].op = "sendSourceWasLoaded"
    /\ requests[2].op = "sendExceptionThrown"
    /\ requests[3].op = "sendDebuggeeIsStopped"
    /\ requests[2].sentAtIssue = 0 /\ requests[3].sentAtIssue = 1
    /\ PosOf(2) = 1 /\ PosOf(3) = 2 /\ PosOf(1) = 3

\* C19: no Output event of a sendExceptionThrown call has a
\* variablesReference field, whatever the stack trace, the category and the
\* location; its body has the text and the category and, with a location,
\* the location fields, and nothing else.
C19_ExceptionOutputHasNoVariablesReference ==
    \A k \in 1..Len(sent) :
        requests[sent[k].req].op = "sendExceptionThrown" =>
            /\ sent[k].event.event = "output"
            /\ "variablesReference" \notin DOMAIN sent[k].event.body
            /\ DOMAIN sent[k].event.body =
                  {"output", "category"} \cup
                  (IF requests[sent[k].req].params.location # <<>>
                   THEN LocationFields ELSE {})

\* An exception with a two-line trace, located in mem1, was reported right
\* after an output that did carry a variablesReference.
C19_Witness ==
    /\ Len(sent) = 2
    /\ requests[sent[1].req].op = "sendOutput"
    /\ "variablesReference" \in DOMAIN sent[1].event.body
    /\ requests[sent[2].req].op = "sendExceptionThrown"
    /\ Len(requests[sent[2].req].params.exceptionStackTrace) = 2
    /\ requests[sent[2].req].params.category = "stderr"
    /\ requests[sent[2].req].params.location # <<>>
    /\ "variablesReference" \notin DOMAIN sent[2].event.body

====
